---- MODULE Spec2Model ----
(***************************************************************************)
(* The WhatsApp credit-purchase bot: the conversation state machine of     *)
(* ConversationService, the session store of DbService, the detached       *)
(* enquiry pipeline processEnquiryAsync and the backend client ECGService. *)
(*                                                                         *)
(* Node.js runs one continuation at a time; a continuation runs from the   *)
(* completion of one awaited operation to the issue of the next one.  Each *)
(* action below is one such continuation: the effect of the awaited        *)
(* operation (a store query, a backend response, a notifier send) followed *)
(* by the code up to the next await.                                       *)
(***************************************************************************)
EXTENDS Naturals, Sequences, FiniteSets, TLC

\* ------------------------------------------------------------------ bounds
MaxMsgs == 2
MaxTurns == 5
MaxHandlers == 2
MaxPipes == 2
MaxCalls == 2
MaxLogins == 3
MaxBurst == 3

\* ------------------------------------------------------------- characters
\* Strings the code inspects character by character are tuples of
\* one-character strings.
Lower == <<"a","b","c","d","e","f","g","h","i","j","k","l","m",
           "n","o","p","q","r","s","t","u","v","w","x","y","z">>
Upper == <<"A","B","C","D","E","F","G","H","I","J","K","L","M",
           "N","O","P","Q","R","S","T","U","V","W","X","Y","Z">>

UpperChar(c) ==
    IF \E i \in 1..Len(Lower) : Lower[i] = c
    THEN Upper[CHOOSE i \in 1..Len(Lower) : Lower[i] = c]
    ELSE c

ToUpperCase(s) == [i \in 1..Len(s) |-> UpperChar(s[i])]

IsSpace(c) == c = " "

RECURSIVE TrimLeft(_)
TrimLeft(s) ==
    IF s = <<>> THEN <<>>
    ELSE IF IsSpace(Head(s)) THEN TrimLeft(Tail(s)) ELSE s

RECURSIVE TrimRight(_)
TrimRight(s) ==
    IF s = <<>> THEN <<>>
    ELSE IF IsSpace(s[Len(s)]) THEN TrimRight(SubSeq(s, 1, Len(s) - 1)) ELSE s

Trim(s) == TrimRight(TrimLeft(s))

\* message.trim().toUpperCase()
Normalize(msg) == ToUpperCase(Trim(msg))

cancelKeywords ==
    { <<"C","A","N","C","E","L">>, <<"S","T","O","P">>, <<"E","N","D">>,
      <<"Q","U","I","T">>, <<"E","X","I","T">>, <<"A","B","O","R","T">> }

resetKeywords == { <<"M","E","N","U">>, <<"R","E","S","E","T">> }

SKIP == <<"S","K","I","P">>

\* Inbound message bodies the webhook may deliver.
Messages ==
    { <<"1">>, <<" ","2">>, <<"m","e","n","u"," ">>, <<"S","t","o","p">>,
      <<"s","k","i","p"," ">>, <<" ","7"," ">>, <<"y","e","s">>, <<"N","o">> }

Phones == {"p1"}

\* ---------------------------------------------------------- session data
STATES == { "MENU", "PREPAID_METER_INFO", "POSTPAID_METER_INFO",
            "PREPAID_ENQUIRY", "POSTPAID_ENQUIRY", "CONFIRM_CHARGE" }

\* key, required
METER_INFO_FIELDS ==
    << [key |-> "phoneNumber", required |-> TRUE],
       [key |-> "meterNumber", required |-> TRUE],
       [key |-> "accountNumber", required |-> FALSE] >>

\* The keys the code ever puts into session_data.
Keys == { "meterType", "currentFieldIndex", "phoneNumber", "meterNumber",
          "accountNumber", "asyncRequestId", "meterInfo", "enquiryResponse" }

\* A key's value is <<v>>; a key the object does not have is <<>>.
None == <<>>
Some(v) == <<v>>
Has(d, k) == Len(d[k]) > 0
Val(d, k) == d[k][1]

EmptyData == [k \in Keys |-> None]

\* Mutant of JsonbConcat: the patch replaces the stored data.
JsonbReplace(d, patch) == patch

\* jsonb `session_data || patch`: key-wise union, the patch's keys win.
JsonbConcat(d, patch) == [k \in Keys |-> IF Has(patch, k) THEN patch[k] ELSE d[k]]

\* -------------------------------------------------------------- the store
\* user_sessions, kept in updated_at order (oldest first): an INSERT appends
\* the row and the BEFORE UPDATE trigger moves an updated row to the end.
NoSession == [id |-> 0, phoneNumber |-> "", currentState |-> "", sessionData |-> EmptyData]

RowIds(st) == { st[i].id : i \in 1..Len(st) }

RowOf(st, id) == st[CHOOSE i \in 1..Len(st) : st[i].id = id]

Without(st, id) == SelectSeq(st, LAMBDA r : r.id # id)

\* SELECT * FROM user_sessions WHERE id = $1
SelectById(st, id) == IF id \in RowIds(st) THEN RowOf(st, id) ELSE NoSession

\* SELECT ... WHERE phone_number = $1 ORDER BY updated_at DESC LIMIT 1
SelectLatest(st, phone) ==
    LET idx == { i \in 1..Len(st) : st[i].phoneNumber = phone }
    IN  IF idx = {} THEN NoSession
        ELSE st[CHOOSE i \in idx : \A j \in idx : j <= i]

\* INSERT INTO user_sessions (phone_number, current_state, session_data)
InsertSession(st, id, phone) ==
    Append(st, [id |-> id, phoneNumber |-> phone, currentState |-> "MENU",
                sessionData |-> EmptyData])

\* Mutant of UpdateSession: an id that matches no row updates the most
\* recently updated row instead of failing.
UpdateAnyRow(st, id, state, patch) ==
    LET t == IF id \in RowIds(st) \/ st = <<>> THEN id ELSE st[Len(st)].id
    IN  IF t \in RowIds(st)
        THEN Append(Without(st, t),
                    [RowOf(st, t) EXCEPT !.currentState = state,
                                         !.sessionData = JsonbConcat(@, patch)])
        ELSE st

\* UPDATE ... SET current_state = $1, session_data = session_data || $2
UpdateSession(st, id, state, patch) ==
    IF id \in RowIds(st)
    THEN Append(Without(st, id),
                [RowOf(st, id) EXCEPT !.currentState = state,
                                      !.sessionData = JsonbConcat(@, patch)])
    ELSE st

\* Mutant of ResetSession: the state is reset, the meter type is kept.
ResetKeepsMeterType(st, id) ==
    IF id \in RowIds(st)
    THEN Append(Without(st, id),
                [RowOf(st, id) EXCEPT !.currentState = "MENU",
                                      !.sessionData = [EmptyData EXCEPT !["meterType"] =
                                                          RowOf(st, id).sessionData["meterType"]]])
    ELSE st

\* Mutant of ResetSession: the state is reset, the data is kept.
ResetKeepsData(st, id) ==
    IF id \in RowIds(st)
    THEN Append(Without(st, id), [RowOf(st, id) EXCEPT !.currentState = "MENU"])
    ELSE st

\* UPDATE ... SET current_state = 'MENU', session_data = '{}'
ResetSession(st, id) ==
    IF id \in RowIds(st)
    THEN Append(Without(st, id),
                [RowOf(st, id) EXCEPT !.currentState = "MENU",
                                      !.sessionData = EmptyData])
    ELSE st

\* Mutant of DeleteSession: the DELETE matches no row.
DeleteNothing(st, id) == st

\* DELETE FROM user_sessions WHERE id = $1
DeleteSession(st, id) == Without(st, id)

\* ------------------------------------------------------------- variables
VARIABLES
    store,       \* the rows of user_sessions, in updated_at order
    nextId,      \* the next gen_random_uuid() of user_sessions.id
    nextUuid,    \* the next uuidv4() of an asyncRequestId
    handlers,    \* the processMessage invocations in flight
    pipes,       \* the processEnquiryAsync invocations
    nmsgs,       \* inbound messages received so far
    cancelDone,  \* ids of the sessions a fully processed cancel replaced
    trace,       \* the field messages of the attempt collected one by one
    authToken,   \* ECGService.authToken (0 is null)
    calls,       \* the getMeterInfo / enquiry invocations of the client
    nextTok,     \* the next token the authentication endpoint hands out
    env          \* process.env: which of the required settings are there

vars == << store, nextId, nextUuid, handlers, pipes, nmsgs, cancelDone, trace,
           authToken, calls, nextTok, env >>

engineVars == << store, nextId, nextUuid, handlers, pipes, nmsgs, cancelDone, trace >>
clientVars == << authToken, calls, nextTok >>

\* ------------------------------------------------- processMessage records
NoReply == [kind |-> "none", arg |-> 0]

IdleHandler ==
    [pc |-> "idle", phoneNumber |-> "", message |-> <<>>, session |-> NoSession,
     toState |-> "", patch |-> EmptyData, reply |-> NoReply]

Busy(hr) == hr.pc \notin {"idle", "done"}

\* `return <text>` of processMessage: the invocation is over, its reply kept.
Return(hr, kind, arg) == [IdleHandler EXCEPT !.pc = "done", !.reply = [kind |-> kind, arg |-> arg]]

\* The catch block of processMessage: a templated error reply.
ReturnError(hr) == Return(hr, "error", 0)

\* The catch block of processMessage when the message of the error names a
\* missing setting: the 'temporarily unavailable' reply.
ReturnUnavailable(hr) == Return(hr, "unavailable", 0)

\* The catch block of processMessage (lines 90-106), by the text it finds in
\* error.message.
Caught(hr, message) ==
    IF message \in {"DATABASE_URL", "BACKEND_BASE_URL"}
    THEN ReturnUnavailable(hr)
    ELSE ReturnError(hr)

IdlePipe ==
    [pc |-> "idle", phoneNumber |-> "", sessionId |-> 0, type |-> "",
     sessionData |-> EmptyData, error |-> "", notes |-> <<>>, reqs |-> <<>>,
     got |-> <<>>, orphanedAt |-> "", rejected |-> FALSE]

Live(pr) == pr.pc \notin {"idle", "done"}

NoTrace == [sid |-> 0, msgs |-> <<>>]

\* ------------------------------------------------------- state handlers
\* Mutant of HandleMenuPatched: the patch leaves currentFieldIndex out.
HandleMenuNoCursor(hr, s, state, meterType) ==
    [hr EXCEPT !.pc = "menuUpdate", !.session = s, !.toState = state,
               !.patch = [EmptyData EXCEPT !["meterType"] = Some(meterType)]]

\* handleMenu up to its first await.
HandleMenuPatched(hr, s, state, meterType) ==
    [hr EXCEPT !.pc = "menuUpdate", !.session = s, !.toState = state,
               !.patch = [EmptyData EXCEPT !["meterType"] = Some(meterType),
                                           !["currentFieldIndex"] = Some(0)]]

handleMenu(hr, s) ==
    LET choice == Trim(hr.message)
    IN  IF choice = <<"1">> THEN HandleMenuPatched(hr, s, "PREPAID_METER_INFO", "Prepaid")
        ELSE IF choice = <<"2">> THEN HandleMenuPatched(hr, s, "POSTPAID_METER_INFO", "Postpaid")
        ELSE IF choice = <<"3">> THEN Return(hr, "comingSoon", 0)
        ELSE Return(hr, "menu", s.id)

\* sessionData.currentFieldIndex || 0
CursorOf(d) == IF Has(d, "currentFieldIndex") THEN Val(d, "currentFieldIndex") ELSE 0

\* Mutant of CollectField: SKIP is stored like any other value.
CollectFieldAlways(d, msg, idx) ==
    [d EXCEPT ![METER_INFO_FIELDS[idx + 1].key] = Some(Trim(msg))]

\* The local sessionData object after the SKIP / store branch (lines 179-187).
CollectField(d, msg, idx) ==
    LET field == METER_INFO_FIELDS[idx + 1]
    IN  IF Normalize(msg) = SKIP /\ ~field.required
        THEN d
        ELSE [d EXCEPT ![field.key] = Some(Trim(msg))]

\* handleMeterInfoCollection up to its first await; uuid is the uuidv4() it
\* draws when the cursor reaches the end of the list.
handleMeterInfoCollection(hr, s, type, uuid) ==
    LET idx == CursorOf(s.sessionData)
    IN  IF idx >= Len(METER_INFO_FIELDS)
        THEN ReturnError(hr)   \* METER_INFO_FIELDS[idx] is undefined: TypeError
        ELSE
        LET d    == CollectField(s.sessionData, hr.message, idx)
            next == idx + 1
        IN  IF next >= Len(METER_INFO_FIELDS)
            THEN [hr EXCEPT !.pc = "completeUpdate",
                            !.toState = IF type = "PREPAID" THEN "PREPAID_ENQUIRY" ELSE "POSTPAID_ENQUIRY",
                            !.patch = [d EXCEPT !["currentFieldIndex"] = Some(next),
                                                !["asyncRequestId"] = Some(uuid)],
                            !.session = [s EXCEPT !.sessionData = [d EXCEPT !["currentFieldIndex"] = Some(next),
                                                                           !["asyncRequestId"] = Some(uuid)]]]
            ELSE [hr EXCEPT !.pc = "fieldUpdate",
                            !.toState = IF type = "PREPAID" THEN "PREPAID_METER_INFO" ELSE "POSTPAID_METER_INFO",
                            !.patch = [d EXCEPT !["currentFieldIndex"] = Some(next)],
                            !.session = [s EXCEPT !.sessionData = [d EXCEPT !["currentFieldIndex"] = Some(next)]]]

\* Mutant of handleChargeConfirmation: only the YES words are recognised.
HandleChargeConfirmationYesOnly(hr, s) ==
    LET up == Normalize(hr.message)
    IN  IF up \in { <<"Y","E","S">>, <<"Y">>, <<"C","O","N","F","I","R","M">> }
        THEN [hr EXCEPT !.pc = "confirmReset", !.session = s, !.toState = "success"]
        ELSE Return(hr, "confirmPrompt", 0)

\* handleChargeConfirmation up to its first await.
handleChargeConfirmation(hr, s) ==
    LET up == Normalize(hr.message)
    IN  IF up \in { <<"Y","E","S">>, <<"Y">>, <<"C","O","N","F","I","R","M">> }
        THEN [hr EXCEPT !.pc = "confirmReset", !.session = s, !.toState = "success"]
        ELSE IF up \in { <<"N","O">>, <<"N">> }
        THEN [hr EXCEPT !.pc = "confirmReset", !.session = s, !.toState = "cancelled"]
        ELSE Return(hr, "confirmPrompt", 0)

\* processMessage from the return of its first getOrCreateSession to its next
\* await: the cancel and reset commands, then the switch on the state.
Dispatch(hr, s, uuid) ==
    LET up == Normalize(hr.message)
    IN  IF up \in cancelKeywords THEN [hr EXCEPT !.pc = "cancelDelete", !.session = s]
        ELSE IF up \in resetKeywords THEN [hr EXCEPT !.pc = "resetCmd", !.session = s]
        ELSE CASE s.currentState = "MENU" -> handleMenu(hr, s)
               [] s.currentState = "PREPAID_METER_INFO" -> handleMeterInfoCollection(hr, s, "PREPAID", uuid)
               [] s.currentState = "POSTPAID_METER_INFO" -> handleMeterInfoCollection(hr, s, "POSTPAID", uuid)
               [] s.currentState \in {"PREPAID_ENQUIRY", "POSTPAID_ENQUIRY"} ->
                    [hr EXCEPT !.pc = "enqGet", !.session = s]
               [] s.currentState = "CONFIRM_CHARGE" -> handleChargeConfirmation(hr, s)

\* Whether the dispatch drew a uuidv4().
DrewUuid(hr) == hr.pc = "completeUpdate"

\* ------------------------------------------------------ processMessage
Slots == 1..MaxHandlers
PipeIds == 1..MaxPipes

OthersBusy(h) == \E g \in Slots \ {h} : Busy(handlers[g])

\* The ghost record of the attempt collected one message at a time: it ends
\* with any store write that is not the next field of that attempt.
EndTrace == trace' = NoTrace

\* processMessage(phone, msg) is called and runs up to the SELECT of
\* getOrCreateSession.
Deliver(h, phone, msg) ==
    /\ ~Busy(handlers[h])
    /\ \A g \in Slots : g < h => Busy(handlers[g])
    /\ handlers' = [handlers EXCEPT ![h] =
            LET hr == [IdleHandler EXCEPT !.pc = "gocSelect", !.phoneNumber = phone,
                                          !.message = msg]
            IN  IF env.DATABASE_URL THEN hr ELSE Caught(hr, "DATABASE_URL")]
    /\ nmsgs' = nmsgs + 1
    /\ trace' = IF OthersBusy(h) THEN NoTrace ELSE trace
    /\ UNCHANGED << store, nextId, nextUuid, pipes, cancelDone, clientVars, env >>

\* A webhook delivers a message, whatever else is in flight.
ReceiveMessage(h, phone, msg) ==
    /\ nmsgs < MaxMsgs
    /\ Deliver(h, phone, msg)

\* A webhook delivers one of a burst of messages of a new user.
ReceiveBurst(h, phone, msg) ==
    /\ nmsgs < MaxBurst
    /\ Deliver(h, phone, msg)

\* A webhook delivers a message after the previous one has been answered.
ReceiveInTurn(phone, msg) ==
    /\ nmsgs < MaxTurns
    /\ \A g \in Slots : ~Busy(handlers[g])
    /\ Deliver(1, phone, msg)

\* getOrCreateSession: the SELECT returns; with a row the session is
\* dispatched, without one the INSERT is issued.
GetOrCreateSelect(h) ==
    LET hr == handlers[h]
        s  == SelectLatest(store, hr.phoneNumber)
        nx == Dispatch(hr, s, nextUuid)
    IN  /\ hr.pc = "gocSelect"
        /\ IF s.id # 0
           THEN /\ handlers' = [handlers EXCEPT ![h] = nx]
                /\ nextUuid' = IF DrewUuid(nx) THEN nextUuid + 1 ELSE nextUuid
           ELSE /\ handlers' = [handlers EXCEPT ![h].pc = "gocInsert"]
                /\ UNCHANGED nextUuid
        /\ UNCHANGED << store, nextId, pipes, nmsgs, cancelDone, trace, clientVars, env >>

\* getOrCreateSession: the INSERT returns the new row, which is dispatched.
GetOrCreateInsert(h) ==
    LET hr == handlers[h]
        st == InsertSession(store, nextId, hr.phoneNumber)
        nx == Dispatch(hr, SelectById(st, nextId), nextUuid)
    IN  /\ hr.pc = "gocInsert"
        /\ store' = st
        /\ nextId' = nextId + 1
        /\ handlers' = [handlers EXCEPT ![h] = nx]
        /\ nextUuid' = IF DrewUuid(nx) THEN nextUuid + 1 ELSE nextUuid
        /\ EndTrace
        /\ UNCHANGED << pipes, nmsgs, cancelDone, clientVars, env >>

\* handleMenu: updateSession returns (or throws 'Session not found').
MenuUpdate(h) ==
    LET hr == handlers[h]
        id == hr.session.id
    IN  /\ hr.pc = "menuUpdate"
        /\ IF id \in RowIds(store)
           THEN /\ store' = UpdateSession(store, id, hr.toState, hr.patch)
                /\ handlers' = [handlers EXCEPT ![h] = Return(hr, "prompt", 0)]
                /\ trace' = IF /\ ~OthersBusy(h)
                               /\ \A p \in PipeIds : ~(Live(pipes[p]) /\ pipes[p].sessionId = id)
                               /\ RowOf(store, id).currentState = "MENU"
                               /\ RowOf(store, id).sessionData = EmptyData
                            THEN [sid |-> id, msgs |-> <<>>]
                            ELSE NoTrace
           ELSE /\ handlers' = [handlers EXCEPT ![h] = ReturnError(hr)]
                /\ UNCHANGED << store, trace >>
        /\ UNCHANGED << nextId, nextUuid, pipes, nmsgs, cancelDone, clientVars, env >>

\* handleMeterInfoCollection, more fields to ask for: updateSession returns.
FieldUpdate(h) ==
    LET hr == handlers[h]
        id == hr.session.id
    IN  /\ hr.pc = "fieldUpdate"
        /\ IF id \in RowIds(store)
           THEN /\ store' = UpdateSession(store, id, hr.toState, hr.patch)
                /\ handlers' = [handlers EXCEPT ![h] =
                        Return(hr, "prompt", CursorOf(hr.patch))]
                /\ trace' = IF trace.sid = id
                            THEN [trace EXCEPT !.msgs = Append(@, hr.message)]
                            ELSE NoTrace
           ELSE /\ handlers' = [handlers EXCEPT ![h] = ReturnError(hr)]
                /\ UNCHANGED << store, trace >>
        /\ UNCHANGED << nextId, nextUuid, pipes, nmsgs, cancelDone, clientVars, env >>

\* processEnquiryAsync(phoneNumber, sessionId, type) up to its first await.
Launch(phone, id, type) ==
    [IdlePipe EXCEPT !.pc = "load", !.phoneNumber = phone, !.sessionId = id, !.type = type]

FreePipe == CHOOSE p \in PipeIds : pipes[p].pc = "idle" /\ \A q \in PipeIds : q < p => pipes[q].pc # "idle"

\* Mutant of CompleteUpdate: the state is written without the session data.
CompleteUpdateStateOnly(h) ==
    LET hr == handlers[h]
        id == hr.session.id
    IN  /\ hr.pc = "completeUpdate"
        /\ IF id \in RowIds(store)
           THEN /\ \E p \in PipeIds : pipes[p].pc = "idle"
                /\ store' = UpdateSession(store, id, hr.toState, EmptyData)
                /\ pipes' = [pipes EXCEPT ![FreePipe] =
                        Launch(hr.session.phoneNumber, id,
                               IF hr.toState = "PREPAID_ENQUIRY" THEN "PREPAID" ELSE "POSTPAID")]
                /\ handlers' = [handlers EXCEPT ![h] = Return(hr, "processing", 0)]
           ELSE /\ handlers' = [handlers EXCEPT ![h] = ReturnError(hr)]
                /\ UNCHANGED << store, pipes >>
        /\ EndTrace
        /\ UNCHANGED << nextId, nextUuid, nmsgs, cancelDone, clientVars, env >>

\* Mutant of CompleteUpdate: the pipeline is started and the acknowledgment
\* returned, but the session is not written.
CompleteUpdateNoPersist(h) ==
    LET hr == handlers[h]
        id == hr.session.id
    IN  /\ hr.pc = "completeUpdate"
        /\ \E p \in PipeIds : pipes[p].pc = "idle"
        /\ pipes' = [pipes EXCEPT ![FreePipe] =
                Launch(hr.session.phoneNumber, id,
                       IF hr.toState = "PREPAID_ENQUIRY" THEN "PREPAID" ELSE "POSTPAID")]
        /\ handlers' = [handlers EXCEPT ![h] = Return(hr, "processing", 0)]
        /\ EndTrace
        /\ UNCHANGED << store, nextId, nextUuid, nmsgs, cancelDone, clientVars, env >>

\* handleMeterInfoCollection, all fields collected: updateSession returns,
\* the pipeline is started without await and the acknowledgment returned.
CompleteUpdate(h) ==
    LET hr == handlers[h]
        id == hr.session.id
    IN  /\ hr.pc = "completeUpdate"
        /\ IF id \in RowIds(store)
           THEN /\ \E p \in PipeIds : pipes[p].pc = "idle"
                /\ store' = UpdateSession(store, id, hr.toState, hr.patch)
                /\ pipes' = [pipes EXCEPT ![FreePipe] =
                        Launch(hr.session.phoneNumber, id,
                               IF hr.toState = "PREPAID_ENQUIRY" THEN "PREPAID" ELSE "POSTPAID")]
                /\ handlers' = [handlers EXCEPT ![h] = Return(hr, "processing", 0)]
           ELSE /\ handlers' = [handlers EXCEPT ![h] = ReturnError(hr)]
                /\ UNCHANGED << store, pipes >>
        /\ EndTrace
        /\ UNCHANGED << nextId, nextUuid, nmsgs, cancelDone, clientVars, env >>

\* Mutant of EnquiryProcessing: the reloaded session is not looked at.
EnquiryProcessingBlind(h) ==
    LET hr == handlers[h]
    IN  /\ hr.pc = "enqGet"
        /\ handlers' = [handlers EXCEPT ![h] = Return(hr, "stillProcessing", 0)]
        /\ UNCHANGED << store, nextId, nextUuid, pipes, nmsgs, cancelDone, trace, clientVars, env >>

\* handleEnquiryProcessing: getSessionById returns; nothing is written.
EnquiryProcessing(h) ==
    LET hr  == handlers[h]
        cur == SelectById(store, hr.session.id)
    IN  /\ hr.pc = "enqGet"
        /\ handlers' = [handlers EXCEPT ![h] =
              IF cur.id # 0 /\ cur.currentState = "CONFIRM_CHARGE" /\ Has(cur.sessionData, "enquiryResponse")
              THEN Return(hr, "enquiryResult", 0)
              ELSE Return(hr, "stillProcessing", 0)]
        /\ UNCHANGED << store, nextId, nextUuid, pipes, nmsgs, cancelDone, trace, clientVars, env >>

\* handleChargeConfirmation, YES / NO: resetSession returns.
ChargeConfirmation(h) ==
    LET hr == handlers[h]
    IN  /\ hr.pc = "confirmReset"
        /\ store' = ResetSession(store, hr.session.id)
        /\ handlers' = [handlers EXCEPT ![h] = Return(hr, hr.toState, 0)]
        /\ EndTrace
        /\ UNCHANGED << nextId, nextUuid, pipes, nmsgs, cancelDone, clientVars, env >>

\* A cancel keyword: deleteSession returns, getOrCreateSession is called.
CancelDelete(h) ==
    LET hr == handlers[h]
    IN  /\ hr.pc = "cancelDelete"
        /\ store' = DeleteSession(store, hr.session.id)
        /\ handlers' = [handlers EXCEPT ![h].pc = "cancelSelect"]
        /\ EndTrace
        /\ UNCHANGED << nextId, nextUuid, pipes, nmsgs, cancelDone, clientVars, env >>

\* The cancel has been answered: the pipelines of the replaced session are
\* orphans from here on (the ghost field records where each one stood).
Orphaned(id) ==
    [p \in PipeIds |->
        IF Live(pipes[p]) /\ pipes[p].sessionId = id /\ pipes[p].orphanedAt = ""
        THEN [pipes[p] EXCEPT !.orphanedAt = pipes[p].pc]
        ELSE pipes[p]]

\* A cancel keyword: the SELECT of the second getOrCreateSession returns.
CancelSelect(h) ==
    LET hr == handlers[h]
        s  == SelectLatest(store, hr.phoneNumber)
    IN  /\ hr.pc = "cancelSelect"
        /\ IF s.id # 0
           THEN /\ handlers' = [handlers EXCEPT ![h] = Return(hr, "cancelMenu", s.id)]
                /\ cancelDone' = cancelDone \cup {hr.session.id}
                /\ pipes' = Orphaned(hr.session.id)
           ELSE /\ handlers' = [handlers EXCEPT ![h].pc = "cancelInsert"]
                /\ UNCHANGED << cancelDone, pipes >>
        /\ UNCHANGED << store, nextId, nextUuid, nmsgs, trace, clientVars, env >>

\* Mutant of CancelInsert: the new row takes the identifier of the old one.
CancelInsertSameId(h) ==
    LET hr == handlers[h]
    IN  /\ hr.pc = "cancelInsert"
        /\ store' = InsertSession(store, hr.session.id, hr.phoneNumber)
        /\ nextId' = nextId + 1
        /\ handlers' = [handlers EXCEPT ![h] = Return(hr, "cancelMenu", hr.session.id)]
        /\ cancelDone' = cancelDone \cup {hr.session.id}
        /\ pipes' = Orphaned(hr.session.id)
        /\ EndTrace
        /\ UNCHANGED << nextUuid, nmsgs, clientVars, env >>

\* A cancel keyword: the INSERT of the second getOrCreateSession returns.
CancelInsert(h) ==
    LET hr == handlers[h]
    IN  /\ hr.pc = "cancelInsert"
        /\ store' = InsertSession(store, nextId, hr.phoneNumber)
        /\ nextId' = nextId + 1
        /\ handlers' = [handlers EXCEPT ![h] = Return(hr, "cancelMenu", nextId)]
        /\ cancelDone' = cancelDone \cup {hr.session.id}
        /\ pipes' = Orphaned(hr.session.id)
        /\ EndTrace
        /\ UNCHANGED << nextUuid, nmsgs, clientVars, env >>

\* Mutant of ResetCommand: the menu is returned without resetSession.
ResetCommandNoWrite(h) ==
    LET hr == handlers[h]
        id == hr.session.id
    IN  /\ hr.pc = "resetCmd"
        /\ handlers' = [handlers EXCEPT ![h] =
              IF id \in RowIds(store) THEN Return(hr, "menu", id)
              ELSE [hr EXCEPT !.pc = "resetSelect"]]
        /\ EndTrace
        /\ UNCHANGED << store, nextId, nextUuid, pipes, nmsgs, cancelDone, clientVars, env >>

\* MENU / RESET: resetSession returns the row, or null when it is gone.
ResetCommand(h) ==
    LET hr == handlers[h]
        id == hr.session.id
    IN  /\ hr.pc = "resetCmd"
        /\ store' = ResetSession(store, id)
        /\ handlers' = [handlers EXCEPT ![h] =
              IF id \in RowIds(store) THEN Return(hr, "menu", id)
              ELSE [hr EXCEPT !.pc = "resetSelect"]]
        /\ EndTrace
        /\ UNCHANGED << nextId, nextUuid, pipes, nmsgs, cancelDone, clientVars, env >>

\* MENU / RESET on a deleted session: the SELECT of getOrCreateSession returns.
ResetSelect(h) ==
    LET hr == handlers[h]
        s  == SelectLatest(store, hr.phoneNumber)
    IN  /\ hr.pc = "resetSelect"
        /\ handlers' = [handlers EXCEPT ![h] =
              IF s.id # 0 THEN Return(hr, "menu", s.id)
              ELSE [hr EXCEPT !.pc = "resetInsert"]]
        /\ UNCHANGED << store, nextId, nextUuid, pipes, nmsgs, cancelDone, trace, clientVars, env >>

\* MENU / RESET on a deleted session: the INSERT returns.
ResetInsert(h) ==
    LET hr == handlers[h]
    IN  /\ hr.pc = "resetInsert"
        /\ store' = InsertSession(store, nextId, hr.phoneNumber)
        /\ nextId' = nextId + 1
        /\ handlers' = [handlers EXCEPT ![h] = Return(hr, "menu", nextId)]
        /\ EndTrace
        /\ UNCHANGED << nextUuid, pipes, nmsgs, cancelDone, clientVars, env >>

\* --------------------------------------------------- processEnquiryAsync
\* Mutant of Notify: the text is dropped.
NotifyNothing(pr, kind) == pr

\* twilioService.sendMessage(phoneNumber, text): the text leaves the process
\* when the call is made.
Notify(pr, kind) == [pr EXCEPT !.notes = Append(@, kind)]

\* What ecgService.getMeterInfo / enquiry hand back to the pipeline: a body
\* (well-formed or not) or an error; an error without a type takes the same
\* branch as one of type api.
MeterInfoOutcomes == {"ok", "noPayload", "timeout", "connection", "api", "untyped"}
EnquiryOutcomes == {"ok", "empty", "timeout", "connection", "api"}

\* _ensureBaseUrl, the first statement of getMeterInfo and enquiry, outside
\* their try block: without BACKEND_BASE_URL the call throws an error that
\* has no type, and with it no call does.
BaseUrlAllows(outcome) == (outcome = "untyped") <=> ~env.BACKEND_BASE_URL

\* The request model getMeterInfo builds: it has no asyncRequestId field.
MeterInfoModel(d) == [endpoint |-> "OnlineInfo", asyncRequestId |-> None]

\* Mutant of EnquiryModel: the asyncRequestId is not passed on.
EnquiryModelNoId(d) == [endpoint |-> "OnlineEnquiry", asyncRequestId |-> Some(0)]

\* The request model enquiry builds: asyncRequestId || '' (0 is '').
EnquiryModel(d) ==
    [endpoint |-> "OnlineEnquiry",
     asyncRequestId |-> IF Has(d, "asyncRequestId") THEN d["asyncRequestId"] ELSE Some(0)]

\* The error notice of a failed step, chosen by error.type; the generic text
\* is that of the step that failed (the enquiry step once its request went out).
ErrorNotice(pr) ==
    IF pr.error = "timeout" THEN "errTimeout"
    ELSE IF pr.error = "connection" THEN "errConnection"
    ELSE IF Len(pr.reqs) >= 2 THEN "errEnquiry"
    ELSE "errMeterInfo"

\* processEnquiryAsync has returned: its locals are gone, what it sent stays.
Returned(pr) == [pr EXCEPT !.pc = "done", !.sessionData = EmptyData, !.error = ""]

\* error.type as the failure branches read it: timeout, connection, or else.
ErrorClass(outcome) == IF outcome \in {"timeout", "connection"} THEN outcome ELSE "other"

\* What a backend call gave the pipeline, as its branches tell it apart: a
\* body with the expected content, or anything else (kept for the record).
Got(pr, outcome) == [pr EXCEPT !.got = Append(@, IF outcome = "ok" THEN "ok" ELSE "failed")]

PipeVarsUnchanged == UNCHANGED << nextId, nextUuid, handlers, nmsgs, cancelDone, trace, clientVars, env >>

\* Lines 233-247: getSessionById returns; the first progress notice is sent.
PipeLoad(p) ==
    LET pr == pipes[p]
        s  == SelectById(store, pr.sessionId)
    IN  /\ pr.pc = "load"
        /\ pipes' = [pipes EXCEPT ![p] =
              IF s.id = 0
              THEN [Notify(pr, "errNotFound") EXCEPT !.pc = "notFoundSend"]
              ELSE [Notify(pr, "retrieving") EXCEPT !.pc = "send1", !.sessionData = s.sessionData]]
        /\ UNCHANGED store
        /\ PipeVarsUnchanged

\* Lines 250-258: the send returns; getMeterInfo is called.
PipeCallMeterInfo(p) ==
    LET pr == pipes[p]
    IN  /\ pr.pc = "send1"
        /\ pipes' = [pipes EXCEPT ![p] =
              [pr EXCEPT !.pc = "meterInfo", !.reqs = Append(@, MeterInfoModel(pr.sessionData))]]
        /\ UNCHANGED store
        /\ PipeVarsUnchanged

\* Mutant of PipeMeterInfoReturn: a body without payLoad is accepted.
PipeMeterInfoReturnLenient(p, outcome) ==
    LET pr == Got(pipes[p], outcome)
    IN  /\ pr.pc = "meterInfo"
        /\ BaseUrlAllows(outcome)
        /\ pipes' = [pipes EXCEPT ![p] =
              IF outcome \in {"ok", "noPayload"}
              THEN [Notify(pr, "processingEnquiry") EXCEPT
                        !.pc = "send2", !.sessionData["meterInfo"] = Some("meterInfoResponse")]
              ELSE [pr EXCEPT !.pc = "failGet", !.error = ErrorClass(outcome)]]
        /\ UNCHANGED store
        /\ PipeVarsUnchanged

\* Lines 259-293: getMeterInfo returns or throws.
PipeMeterInfoReturn(p, outcome) ==
    LET pr == Got(pipes[p], outcome)
    IN  /\ pr.pc = "meterInfo"
        /\ BaseUrlAllows(outcome)
        /\ pipes' = [pipes EXCEPT ![p] =
              IF outcome = "ok"
              THEN [Notify(pr, "processingEnquiry") EXCEPT
                        !.pc = "send2", !.sessionData["meterInfo"] = Some("meterInfoResponse")]
              ELSE [pr EXCEPT !.pc = "failGet", !.error = ErrorClass(outcome)]]
        /\ UNCHANGED store
        /\ PipeVarsUnchanged

\* Lines 297-310: the send returns; enquiry is called.
PipeCallEnquiry(p) ==
    LET pr == pipes[p]
    IN  /\ pr.pc = "send2"
        /\ pipes' = [pipes EXCEPT ![p] =
              [pr EXCEPT !.pc = "enquiry", !.reqs = Append(@, EnquiryModel(pr.sessionData))]]
        /\ UNCHANGED store
        /\ PipeVarsUnchanged

\* Mutant of PipeEnquiryReturn: an empty result set is accepted.
PipeEnquiryReturnLenient(p, outcome) ==
    LET pr == Got(pipes[p], outcome)
    IN  /\ pr.pc = "enquiry"
        /\ pipes' = [pipes EXCEPT ![p] =
              IF outcome \in {"ok", "empty"}
              THEN [pr EXCEPT !.pc = "confirmUpdate",
                              !.sessionData["enquiryResponse"] = Some("enquiryResponse")]
              ELSE [pr EXCEPT !.pc = "failGet", !.error = ErrorClass(outcome)]]
        /\ UNCHANGED store
        /\ PipeVarsUnchanged

\* Lines 311-340: enquiry returns or throws.
PipeEnquiryReturn(p, outcome) ==
    LET pr == Got(pipes[p], outcome)
    IN  /\ pr.pc = "enquiry"
        /\ pipes' = [pipes EXCEPT ![p] =
              IF outcome = "ok"
              THEN [pr EXCEPT !.pc = "confirmUpdate",
                              !.sessionData["enquiryResponse"] = Some("enquiryResponse")]
              ELSE [pr EXCEPT !.pc = "failGet", !.error = ErrorClass(outcome)]]
        /\ UNCHANGED store
        /\ PipeVarsUnchanged

\* The failure paths (lines 260-273, 277-283, 312-325, 329-335):
\* getSessionById returns; resetSession is called if the session exists,
\* and the error notice is sent either way.
PipeFailGet(p) ==
    LET pr == pipes[p]
        s  == SelectById(store, pr.sessionId)
    IN  /\ pr.pc = "failGet"
        /\ pipes' = [pipes EXCEPT ![p] =
              IF s.id # 0
              THEN [pr EXCEPT !.pc = "failReset"]
              ELSE [Notify(pr, ErrorNotice(pr)) EXCEPT !.pc = "errSend"]]
        /\ UNCHANGED store
        /\ PipeVarsUnchanged

\* Mutant of PipeFailReset: the error notice is sent without the reset.
PipeFailNoReset(p) ==
    LET pr == pipes[p]
    IN  /\ pr.pc = "failReset"
        /\ UNCHANGED store
        /\ pipes' = [pipes EXCEPT ![p] = [Notify(pr, ErrorNotice(pr)) EXCEPT !.pc = "errSend"]]
        /\ PipeVarsUnchanged

\* The failure paths: resetSession returns; the error notice is sent.
PipeFailReset(p) ==
    LET pr == pipes[p]
    IN  /\ pr.pc = "failReset"
        /\ store' = ResetSession(store, pr.sessionId)
        /\ pipes' = [pipes EXCEPT ![p] = [Notify(pr, ErrorNotice(pr)) EXCEPT !.pc = "errSend"]]
        /\ PipeVarsUnchanged

\* Lines 340-345: updateSession(CONFIRM_CHARGE) returns and the result is
\* sent, or it throws 'Session not found' into the outer catch.
PipeConfirmUpdate(p) ==
    LET pr == pipes[p]
    IN  /\ pr.pc = "confirmUpdate"
        /\ store' = UpdateSession(store, pr.sessionId, "CONFIRM_CHARGE", pr.sessionData)
        /\ pipes' = [pipes EXCEPT ![p] =
              IF pr.sessionId \in RowIds(store)
              THEN [Notify(pr, "result") EXCEPT !.pc = "resultSend"]
              ELSE [pr EXCEPT !.pc = "catchGet"]]
        /\ PipeVarsUnchanged

\* An awaited store call inside the try block rejects (the query fails):
\* control passes to the outer catch, which calls getSessionById.
PipeStoreThrows(p) ==
    LET pr == pipes[p]
    IN  /\ pr.pc \in {"load", "failGet", "confirmUpdate"}
        /\ pipes' = [pipes EXCEPT ![p].pc = "catchGet"]
        /\ UNCHANGED store
        /\ PipeVarsUnchanged

\* Lines 351-357: the outer catch; getSessionById returns.
PipeCatchGet(p) ==
    LET pr == pipes[p]
        s  == SelectById(store, pr.sessionId)
    IN  /\ pr.pc = "catchGet"
        /\ pipes' = [pipes EXCEPT ![p] =
              IF s.id # 0 THEN [pr EXCEPT !.pc = "catchReset"] ELSE Returned(pr)]
        /\ UNCHANGED store
        /\ PipeVarsUnchanged

\* Line 354: getSessionById rejects inside the outer catch. Nothing encloses
\* it, so the promise of processEnquiryAsync rejects, and the caller (line
\* 205) neither awaits it nor attaches a handler.
PipeCatchThrows(p) ==
    LET pr == pipes[p]
    IN  /\ pr.pc = "catchGet"
        /\ pipes' = [pipes EXCEPT ![p] = [Returned(pr) EXCEPT !.rejected = TRUE]]
        /\ UNCHANGED store
        /\ PipeVarsUnchanged

\* Lines 356-361: the outer catch; resetSession returns, the notice is sent.
PipeCatchReset(p) ==
    LET pr == pipes[p]
    IN  /\ pr.pc = "catchReset"
        /\ store' = ResetSession(store, pr.sessionId)
        /\ pipes' = [pipes EXCEPT ![p] = [Notify(pr, "errGeneric") EXCEPT !.pc = "catchSend"]]
        /\ PipeVarsUnchanged

\* The last send of a path returns and processEnquiryAsync returns.
PipeReturn(p) ==
    LET pr == pipes[p]
    IN  /\ pr.pc \in {"notFoundSend", "errSend", "resultSend", "catchSend"}
        /\ pipes' = [pipes EXCEPT ![p] = Returned(pr)]
        /\ UNCHANGED store
        /\ PipeVarsUnchanged

\* -------------------------------------------------------------- ECGService
CallIds == 1..MaxCalls

\* An error object as _makeAuthenticatedRequest and _handleError read it:
\* its type, its code, the status of error.response (0: no response) and
\* whether its message contains 'timeout'.
Err(type, code, status, timeoutMsg) ==
    [type |-> type, code |-> code, status |-> status, timeoutMsg |-> timeoutMsg]

\* What axios.post rejects with, by what happened to the request.
AxiosError(o) ==
    CASE o = "timeout" -> Err("", "ECONNABORTED", 0, TRUE)
      [] o = "refused" -> Err("", "ECONNREFUSED", 0, FALSE)
      [] o = "network" -> Err("", "ERR_NETWORK", 0, FALSE)
      [] o = "401"     -> Err("", "ERR_BAD_REQUEST", 401, FALSE)
      [] o = "500"     -> Err("", "ERR_BAD_RESPONSE", 500, FALSE)

\* login()'s catch block (lines 79-91): an error with a response is wrapped
\* into one of type auth (which has no response property), any other error
\* is rethrown as it is.
LoginError(o) ==
    CASE o \in {"401", "500"} -> Err("auth", "", 0, FALSE)
      [] o = "badBody" -> Err("", "", 0, FALSE)
      [] OTHER -> AxiosError(o)

LoginOutcomes == {"ok", "badBody", "500", "timeout", "refused"}
RequestOutcomes == {"ok", "emptyBody", "401", "500", "timeout", "refused", "network"}

\* _handleError (lines 160-203): the type of the error it throws.
HandleErrorType(e) ==
    IF e.code = "ECONNABORTED" \/ e.timeoutMsg THEN "timeout"
    ELSE IF e.code \in {"ECONNREFUSED", "ENOTFOUND", "ETIMEDOUT"} THEN "connection"
    ELSE IF e.status = 0 THEN "connection"
    ELSE "api"

\* Mutant of ShouldRetry: the isRetry test is missing.
ShouldRetryAlways(e, isRetry) == e.status = 401

\* Line 132: error.response?.status === 401 && !isRetry
ShouldRetry(e, isRetry) == e.status = 401 /\ ~isRetry

\* The socket of one getMachineSignature call: whether new WebSocket
\* returned one, whether 'open' has fired, the isResolved flag, whether the
\* 5-second timer is pending, whether close() or terminate() has been called
\* on it, and the path on which the promise settled ("": still pending).
NoSocket ==
    [opened |-> FALSE, isOpen |-> FALSE, isResolved |-> FALSE, timer |-> FALSE,
     torndown |-> FALSE, exit |-> ""]

IdleCall ==
    [pc |-> "idle", op |-> "", isRetry |-> FALSE, hadToken |-> FALSE,
     sent |-> <<>>, resps |-> <<>>, logins |-> 0, relogins |-> 0,
     newToken |-> 0, result |-> "",
     phoneNumber |-> <<>>, phone |-> <<>>,
     machineSignature |-> "unset", ws |-> NoSocket, loginThrew |-> "none"]

\* Mutant of EnsureAuth: login() is called whether or not a token is cached.
EnsureAuthEager(cr, token) ==
    IF cr.pc # "headers"
    THEN [cr EXCEPT !.pc = "login", !.logins = @ + 1]
    ELSE [cr EXCEPT !.pc = "request", !.sent = Append(@, token)]

\* Mutant of EnsureAuth: the headers are built without looking at the cache.
EnsureAuthUnchecked(cr, token) ==
    [cr EXCEPT !.pc = "request", !.sent = Append(@, token)]

\* Mutant of EnsureAuth: the retry reuses the headers of the first attempt.
EnsureAuthStale(cr, token) ==
    IF token = 0
    THEN [cr EXCEPT !.pc = "login", !.logins = @ + 1]
    ELSE [cr EXCEPT !.pc = "request",
                    !.sent = Append(@, IF cr.sent = <<>> THEN token ELSE cr.sent[1])]

\* _getAuthHeaders / _ensureAuth up to the await: with a cached token the
\* request goes out carrying it, without one login() is called.
EnsureAuth(cr, token) ==
    IF token = 0
    THEN [cr EXCEPT !.pc = "login", !.logins = @ + 1]
    ELSE [cr EXCEPT !.pc = "request", !.sent = Append(@, token)]

\* The call is over: it returned the body or threw through _handleError.
Finish(cr, result) == [cr EXCEPT !.pc = "done", !.result = result]

ClientVarsUnchanged == UNCHANGED << engineVars, env >>

\* The phone numbers getMeterInfo is given: what a user typed, as characters.
Digits == {"0", "1", "2", "3", "4", "5", "6", "7", "8", "9"}
PhoneInputs == { << "+", "2", " ", "4" >>, << "0", "2", "-", "4" >>,
                 << "2", "+", "4" >>, << "s", "k", "i", "p" >> }

KeptByFormat(ch) == ch \in Digits \cup {"+"}

\* formatPhoneNumber: phoneNumber.replace(/[^\d+]/g, '')
formatPhoneNumber(phoneNumber) == SelectSeq(phoneNumber, KeptByFormat)

\* _makeAuthenticatedRequest is entered: _ensureAuth up to its await.
Authenticated(cr, token) == EnsureAuth([cr EXCEPT !.hadToken = (token # 0)], token)

\* _ensureBaseUrl throws: the call is over before its try block is entered,
\* with an error nothing has given a type.
NoBaseUrl(cr) == Finish(cr, "untyped")

\* getMeterInfo is called: the model is built and the code runs up to the
\* first await.
GetMeterInfo(c, phoneNumber) ==
    /\ calls[c].pc = "idle"
    /\ \A b \in CallIds : b < c => calls[b].pc # "idle"
    /\ calls' = [calls EXCEPT ![c] =
          IF env.BACKEND_BASE_URL
          THEN Authenticated([IdleCall EXCEPT !.op = "getMeterInfo",
                                              !.phoneNumber = phoneNumber,
                                              !.phone = formatPhoneNumber(phoneNumber)],
                             authToken)
          ELSE NoBaseUrl([IdleCall EXCEPT !.op = "getMeterInfo", !.phoneNumber = phoneNumber])]
    /\ UNCHANGED << authToken, nextTok >>
    /\ ClientVarsUnchanged

\* What the signature socket answers once the payload is sent: a body with
\* the machineSignature item, one without it, one without RESULT / DATA, or
\* text that is no JSON.
SignatureBodies == {"value", "noValue", "badFormat", "unparsable"}

\* Mutant of SignatureSettled: without a signature the enquiry gives up.
SignatureRequired(cr, signature, token) ==
    IF signature = ""
    THEN Finish([cr EXCEPT !.machineSignature = signature], "api")
    ELSE Authenticated([cr EXCEPT !.machineSignature = signature], token)

\* enquiry after `await getMachineSignature()` (lines 268-297): resolved or
\* rejected, the model is built with `signature || ''` and the request made.
SignatureSettled(cr, signature, token) ==
    Authenticated([cr EXCEPT !.machineSignature = signature], token)

\* enquiry is called without a machine signature: getMachineSignature runs
\* up to the end of its executor. new WebSocket either returns a socket, and
\* the timer is armed, or throws, and the promise is rejected at once.
Enquiry(c, constructed) ==
    LET cr == [IdleCall EXCEPT !.op = "enquiry"]
    IN  /\ calls[c].pc = "idle"
        /\ \A b \in CallIds : b < c => calls[b].pc # "idle"
        /\ calls' = [calls EXCEPT ![c] =
              IF ~env.BACKEND_BASE_URL
              THEN NoBaseUrl(cr)
              ELSE IF constructed
              THEN [cr EXCEPT !.pc = "signature",
                              !.ws = [NoSocket EXCEPT !.opened = TRUE, !.timer = TRUE]]
              ELSE SignatureSettled([cr EXCEPT !.ws = [NoSocket EXCEPT !.exit = "initFail"]],
                                    "", authToken)]
        /\ UNCHANGED << authToken, nextTok >>
        /\ ClientVarsUnchanged

\* ws.on('open'): the payload is sent.
SocketOpen(c) ==
    LET cr == calls[c]
    IN  /\ cr.pc = "signature"
        /\ ~cr.ws.isOpen
        /\ calls' = [calls EXCEPT ![c].ws.isOpen = TRUE]
        /\ UNCHANGED << authToken, nextTok >>
        /\ ClientVarsUnchanged

\* ws.on('message') (lines 42-75): every branch sets isResolved, clears the
\* timer, calls ws.close() and settles the promise.
SocketMessage(c, body) ==
    LET cr == calls[c]
        ws == [cr.ws EXCEPT !.isResolved = TRUE, !.timer = FALSE,
                            !.torndown = TRUE, !.exit = body]
    IN  /\ cr.pc = "signature"
        /\ cr.ws.isOpen
        /\ ~cr.ws.isResolved
        /\ calls' = [calls EXCEPT ![c] =
              SignatureSettled([cr EXCEPT !.ws = ws],
                               IF body = "value" THEN "sig" ELSE "", authToken)]
        /\ UNCHANGED << authToken, nextTok >>
        /\ ClientVarsUnchanged

\* ws.on('error') (lines 77-83): isResolved is set, the timer cleared and the
\* promise rejected; the socket is not touched.
SocketError(c) ==
    LET cr == calls[c]
        ws == [cr.ws EXCEPT !.isResolved = TRUE, !.timer = FALSE, !.exit = "error"]
    IN  /\ cr.pc = "signature"
        /\ ~cr.ws.isResolved
        /\ calls' = [calls EXCEPT ![c] = SignatureSettled([cr EXCEPT !.ws = ws], "", authToken)]
        /\ UNCHANGED << authToken, nextTok >>
        /\ ClientVarsUnchanged

\* The 5-second timer fires (lines 26-32): ws.terminate() and rejection.
SignatureTimeout(c) ==
    LET cr == calls[c]
        ws == [cr.ws EXCEPT !.isResolved = TRUE, !.timer = FALSE,
                            !.torndown = TRUE, !.exit = "timeout"]
    IN  /\ cr.pc = "signature"
        /\ cr.ws.timer
        /\ ~cr.ws.isResolved
        /\ calls' = [calls EXCEPT ![c] = SignatureSettled([cr EXCEPT !.ws = ws], "", authToken)]
        /\ UNCHANGED << authToken, nextTok >>
        /\ ClientVarsUnchanged

\* login() called from _ensureAuth returns or throws.
LoginReturn(c, o) ==
    LET cr == calls[c]
    IN  /\ cr.pc = "login"
        /\ IF o = "ok"
           THEN /\ nextTok <= MaxLogins
                /\ authToken' = nextTok
                /\ nextTok' = nextTok + 1
                /\ calls' = [calls EXCEPT ![c] = EnsureAuth([cr EXCEPT !.pc = "headers"], nextTok)]
           ELSE /\ authToken' = 0
                /\ UNCHANGED nextTok
                /\ calls' = [calls EXCEPT ![c] =
                      Finish([cr EXCEPT !.loginThrew = LoginError(o).type],
                             HandleErrorType(LoginError(o)))]
        /\ ClientVarsUnchanged

\* The request returns a response or rejects (lines 129-139, 238-249).
RequestReturn(c, o) ==
    LET cr == [calls[c] EXCEPT !.resps = Append(@, o)]
    IN  /\ calls[c].pc = "request"
        /\ IF o = "ok"
           THEN /\ calls' = [calls EXCEPT ![c] = Finish(cr, "ok")]
                /\ UNCHANGED authToken
           ELSE IF o = "emptyBody"
           THEN /\ calls' = [calls EXCEPT ![c] =
                      Finish(cr, HandleErrorType(Err("api", "", 0, FALSE)))]
                /\ UNCHANGED authToken
           ELSE IF ShouldRetry(AxiosError(o), cr.isRetry)
           THEN /\ authToken' = 0
                /\ calls' = [calls EXCEPT ![c] =
                      [cr EXCEPT !.pc = "relogin", !.relogins = @ + 1]]
           ELSE /\ calls' = [calls EXCEPT ![c] = Finish(cr, HandleErrorType(AxiosError(o)))]
                /\ UNCHANGED authToken
        /\ UNCHANGED nextTok
        /\ ClientVarsUnchanged

\* login() called after a 401 returns or throws (lines 135-136); on success
\* the request is made again with isRetry = true.
ReloginReturn(c, o) ==
    LET cr == calls[c]
    IN  /\ cr.pc = "relogin"
        /\ IF o = "ok"
           THEN /\ nextTok <= MaxLogins
                /\ authToken' = nextTok
                /\ nextTok' = nextTok + 1
                /\ calls' = [calls EXCEPT ![c] =
                      EnsureAuth([cr EXCEPT !.isRetry = TRUE, !.newToken = nextTok], nextTok)]
           ELSE /\ authToken' = 0
                /\ UNCHANGED nextTok
                /\ calls' = [calls EXCEPT ![c] =
                      Finish([cr EXCEPT !.loginThrew = LoginError(o).type],
                             HandleErrorType(LoginError(o)))]
        /\ ClientVarsUnchanged

\* --------------------------------------------------------- specification

\* A store the program reaches by the messages "1" or "2", f1, f2 from one
\* phone, handled one after the other: one session, two fields collected.
FieldStep(st, msg) ==
    LET s  == SelectLatest(st, "p1")
        hr == Dispatch([IdleHandler EXCEPT !.message = msg], s, 0)
    IN  UpdateSession(st, s.id, hr.toState, hr.patch)

MidAttempt(choice, f1, f2) ==
    FieldStep(FieldStep(FieldStep(InsertSession(<<>>, 1, "p1"), choice), f1), f2)

MidInputs == { << <<"1">>, <<" ","7"," ">>, <<"1">> >>,
               << <<" ","2">>, <<" ","7"," ">>, <<"s","k","i","p"," ">> >> }

EngineStart ==
    /\ handlers = [h \in Slots |-> IdleHandler]
    /\ pipes = [p \in PipeIds |-> IdlePipe]
    /\ nmsgs = 0
    /\ nextUuid = 1
    /\ cancelDone = {}

EngineEmpty ==
    /\ EngineStart
    /\ store = <<>>
    /\ nextId = 1
    /\ trace = NoTrace

EngineMid ==
    /\ EngineStart
    /\ \E m \in MidInputs :
          /\ store = MidAttempt(m[1], m[2], m[3])
          /\ nextId = 2
          /\ trace = [sid |-> 1, msgs |-> << m[2], m[3] >>]

EngineInit == EngineEmpty \/ EngineMid

ClientIdle ==
    /\ authToken = 0
    /\ calls = [c \in 1..MaxCalls |-> IdleCall]
    /\ nextTok = 1

\* process.env as the program reads it: with every required setting, or
\* without the database URL, or without the base URL of the backend.
Settings == [DATABASE_URL : BOOLEAN, BACKEND_BASE_URL : BOOLEAN]
Configured == [DATABASE_URL |-> TRUE, BACKEND_BASE_URL |-> TRUE]

Init ==
    /\ ClientIdle
    /\ env \in Settings
    /\ IF env.DATABASE_URL THEN EngineInit ELSE EngineEmpty

HandlerStep(h) ==
    \/ GetOrCreateSelect(h)
    \/ GetOrCreateInsert(h)
    \/ MenuUpdate(h)
    \/ FieldUpdate(h)
    \/ CompleteUpdate(h)
    \/ EnquiryProcessing(h)
    \/ ChargeConfirmation(h)
    \/ CancelDelete(h)
    \/ CancelSelect(h)
    \/ CancelInsert(h)
    \/ ResetCommand(h)

\* The steps only a session deleted under a running MENU / RESET leads to.
RaceStep(h) ==
    \/ ResetSelect(h)
    \/ ResetInsert(h)

PipeStep(p) ==
    \/ PipeLoad(p)
    \/ PipeCallMeterInfo(p)
    \/ \E o \in MeterInfoOutcomes : PipeMeterInfoReturn(p, o)
    \/ PipeCallEnquiry(p)
    \/ \E o \in EnquiryOutcomes : PipeEnquiryReturn(p, o)
    \/ PipeFailGet(p)
    \/ PipeFailReset(p)
    \/ PipeConfirmUpdate(p)
    \/ PipeStoreThrows(p)
    \/ PipeCatchGet(p)
    \/ PipeCatchThrows(p)
    \/ PipeCatchReset(p)
    \/ PipeReturn(p)

Next ==
    \/ \E h \in Slots, phone \in Phones, msg \in Messages : ReceiveMessage(h, phone, msg)
    \/ \E h \in Slots : HandlerStep(h)
    \/ \E h \in Slots : RaceStep(h)
    \/ \E p \in PipeIds : PipeStep(p)

Spec == Init /\ [][Next]_vars

\* The backend client on its own: concurrent getMeterInfo / enquiry calls
\* sharing the cached token.
ClientInit ==
    /\ EngineEmpty
    /\ ClientIdle
    /\ env \in { e \in Settings : e.DATABASE_URL }

ClientNext ==
    \/ \E c \in CallIds, phoneNumber \in PhoneInputs : GetMeterInfo(c, phoneNumber)
    \/ \E c \in CallIds, constructed \in BOOLEAN : Enquiry(c, constructed)
    \/ \E c \in CallIds : SocketOpen(c)
    \/ \E c \in CallIds, body \in SignatureBodies : SocketMessage(c, body)
    \/ \E c \in CallIds : SocketError(c)
    \/ \E c \in CallIds : SignatureTimeout(c)
    \/ \E c \in CallIds, o \in LoginOutcomes : LoginReturn(c, o)
    \/ \E c \in CallIds, o \in RequestOutcomes : RequestReturn(c, o)
    \/ \E c \in CallIds, o \in LoginOutcomes : ReloginReturn(c, o)

SpecClient == ClientInit /\ [][ClientNext]_vars

\* The conversation with one message at a time: each message is delivered
\* after the previous one has been answered; the pipelines run detached.
SeqInit == EngineEmpty /\ ClientIdle /\ env = Configured

SeqNext ==
    \/ \E phone \in Phones, msg \in Messages : ReceiveInTurn(phone, msg)
    \/ \E h \in Slots : HandlerStep(h)
    \/ \E p \in PipeIds : PipeStep(p)

SpecSeq == SeqInit /\ [][SeqNext]_vars

\* A burst of overlapping messages from a phone number that has no session
\* yet: too few messages to complete a field collection, so the steps are
\* those of session creation, the menu, the first fields and the commands.
BurstInit == EngineEmpty /\ ClientIdle /\ env = Configured

BurstStep(h) ==
    \/ GetOrCreateSelect(h)
    \/ GetOrCreateInsert(h)
    \/ MenuUpdate(h)
    \/ FieldUpdate(h)
    \/ CancelDelete(h)
    \/ CancelSelect(h)
    \/ CancelInsert(h)
    \/ ResetCommand(h)
    \/ ResetSelect(h)
    \/ ResetInsert(h)

BurstNext ==
    \/ \E h \in Slots, phone \in Phones, msg \in Messages : ReceiveBurst(h, phone, msg)
    \/ \E h \in Slots : BurstStep(h)

SpecBurst == BurstInit /\ [][BurstNext]_vars

\* ---------------------------------------------------------------- claims
EnquiryStates == {"PREPAID_ENQUIRY", "POSTPAID_ENQUIRY"}

\* C1: once a cancel keyword has been fully processed while the pipeline of
\* the cancelled session was waiting on the meter-info or the enquiry call,
\* that pipeline sends no further notification.
C1_NoNotificationAfterCancel ==
    [][\A p \in PipeIds :
          pipes[p].orphanedAt \in {"meterInfo", "enquiry"}
              => pipes'[p].notes = pipes[p].notes]_vars

\* C2: the identifier of a session replaced by a fully processed cancel
\* resolves to not-found in every later state.
C2_CancelledIdNotFound ==
    \A id \in cancelDone : SelectById(store, id) = NoSession

\* C2 witness: a cancel was answered, the orphaned pipeline ran to its end
\* and the phone number has its replacement session.
C2_Witness ==
    \E id \in cancelDone :
        \E p \in PipeIds :
        /\ pipes[p].sessionId = id /\ pipes[p].pc = "done"
        /\ SelectLatest(store, pipes[p].phoneNumber).currentState = "MENU"

\* C3: a step of a pipeline whose session has been deleted leaves every row
\* of the store as it was.
C3_OrphanWritesNothing ==
    [][\A p \in PipeIds :
          ( /\ Live(pipes[p])
            /\ pipes[p].sessionId \notin RowIds(store)
            /\ pipes'[p].pc # pipes[p].pc )
              => store' = store]_vars

\* C3 witness: the orphan has issued its CONFIRM_CHARGE write against the
\* deleted identifier while the replacement session exists.
C3_Witness ==
    \E p \in PipeIds :
        /\ pipes[p].pc = "catchGet"
        /\ Has(pipes[p].sessionData, "enquiryResponse")
        /\ pipes[p].sessionId \in cancelDone
        /\ SelectLatest(store, pipes[p].phoneNumber).currentState = "MENU"

\* C4: a pipeline whose first reload finds the session absent has sent no
\* notification and made no backend call.
C4_SilentAbort ==
    \A p \in PipeIds :
        pipes[p].pc = "notFoundSend" => pipes[p].notes = <<>> /\ pipes[p].reqs = <<>>

\* C5: a call made with a cached token that is answered 401 once and then
\* 200 has cleared the token, logged in exactly once, sent exactly one more
\* request, carrying the token of that login, and returns the response.
C5_RetryAfterUnauthorized ==
    \A c \in CallIds :
        ( /\ calls[c].pc = "done"
          /\ calls[c].hadToken
          /\ calls[c].resps = <<"401", "ok">> )
            => /\ calls[c].relogins = 1
               /\ calls[c].logins = 0
               /\ Len(calls[c].sent) = 2
               /\ calls[c].sent[2] = calls[c].newToken
               /\ calls[c].sent[2] # calls[c].sent[1]
               /\ calls[c].result = "ok"

\* C5 witness: such a call has returned.
C5_Witness ==
    \E c \in CallIds :
        /\ calls[c].pc = "done"
        /\ calls[c].hadToken
        /\ calls[c].resps = <<"401", "ok">>
        /\ calls[c].result = "ok"

\* C6: one call sends at most two requests and logs in again at most once;
\* answered 401 twice it fails with type auth or api after two requests.
C6_RetryBound ==
    \A c \in CallIds :
        /\ Len(calls[c].sent) <= 2
        /\ calls[c].relogins <= 1
        /\ calls[c].resps = <<"401", "401">>
              => /\ calls[c].pc = "done"
                 /\ calls[c].result \in {"auth", "api"}
                 /\ Len(calls[c].sent) = 2
                 /\ calls[c].relogins = 1

\* C6 witness: a call was answered 401 on both attempts.
C6_Witness ==
    \E c \in CallIds :
        /\ calls[c].resps = <<"401", "401">>
        /\ calls[c].pc = "done"

\* C7: the write of handleMenu for "1" (resp. "2") leaves the session in
\* PREPAID_METER_INFO (resp. POSTPAID_METER_INFO) with currentFieldIndex 0
\* and meterType Prepaid (resp. Postpaid).
C7_MenuChoice ==
    [][\A h \in Slots :
          ( /\ handlers[h].pc = "menuUpdate"
            /\ handlers'[h].pc = "done"
            /\ handlers[h].session.currentState = "MENU"
            /\ handlers[h].session.id \in RowIds(store) )
              => LET r  == SelectById(store', handlers[h].session.id)
                     c1 == Trim(handlers[h].message) = <<"1">>
                 IN  /\ handlers'[h].reply.kind = "prompt"
                     /\ r.currentState = IF c1 THEN "PREPAID_METER_INFO" ELSE "POSTPAID_METER_INFO"
                     /\ r.sessionData["currentFieldIndex"] = Some(0)
                     /\ r.sessionData["meterType"] = Some(IF c1 THEN "Prepaid" ELSE "Postpaid")]_vars

\* C7 witness: a MENU session has answered "2" and stands in
\* POSTPAID_METER_INFO at cursor 0.
C7_Witness ==
    \E h \in Slots, i \in 1..Len(store) :
        /\ handlers[h].reply = [kind |-> "prompt", arg |-> 0]
        /\ store[i].currentState = "POSTPAID_METER_INFO"
        /\ store[i].sessionData["currentFieldIndex"] = Some(0)
        /\ store[i].sessionData["meterType"] = Some("Postpaid")

\* C8: three field messages handled one after the other on a session that
\* entered *_METER_INFO with empty data, the third being SKIP in any letter
\* case: the completing write leaves the matching *_ENQUIRY state,
\* phoneNumber and meterNumber equal to the trimmed first and second
\* messages, and no accountNumber key.
C8_SkipLastField ==
    [][\A h \in Slots :
          ( /\ handlers[h].pc = "completeUpdate"
            /\ handlers'[h].pc = "done"
            /\ handlers[h].session.id \in RowIds(store)
            /\ trace.sid = handlers[h].session.id
            /\ Len(trace.msgs) = 2
            /\ Normalize(handlers[h].message) = SKIP )
              => LET r == SelectById(store', handlers[h].session.id)
                 IN  /\ r.currentState =
                            IF handlers[h].session.currentState = "PREPAID_METER_INFO"
                            THEN "PREPAID_ENQUIRY" ELSE "POSTPAID_ENQUIRY"
                     /\ r.sessionData["phoneNumber"] = Some(Trim(trace.msgs[1]))
                     /\ r.sessionData["meterNumber"] = Some(Trim(trace.msgs[2]))
                     /\ ~Has(r.sessionData, "accountNumber")]_vars

\* C8 witness: the session stands in POSTPAID_ENQUIRY after "2", " 7 ",
\* "yes" and a skipped account number.
C8_Witness ==
    \E i \in 1..Len(store) :
        /\ store[i].currentState = "POSTPAID_ENQUIRY"
        /\ store[i].sessionData["phoneNumber"] = Some(<<"7">>)
        /\ store[i].sessionData["meterNumber"] = Some(<<"y","e","s">>)
        /\ ~Has(store[i].sessionData, "accountNumber")
        /\ store[i].sessionData["currentFieldIndex"] = Some(3)
        /\ nmsgs = 4

\* C9: while a session stays in an *_ENQUIRY state its asyncRequestId is
\* never regenerated or overwritten.
C9_CorrelationIdStable ==
    [][\A i \in 1..Len(store) :
          ( /\ store[i].currentState \in EnquiryStates
            /\ SelectById(store', store[i].id).currentState \in EnquiryStates )
              => SelectById(store', store[i].id).sessionData["asyncRequestId"]
                    = store[i].sessionData["asyncRequestId"]]_vars

ResetRow(r) ==
    [id |-> r.id, phoneNumber |-> r.phoneNumber, currentState |-> "MENU",
     sessionData |-> EmptyData]

\* C11: for every stored session, resetSession applied once and applied
\* twice in a row both leave it in MENU with empty data, with the same
\* identifier and phone number.
C11_ResetIdempotent ==
    \A i \in 1..Len(store) :
        LET id   == store[i].id
            once == ResetSession(store, id)
            twice == ResetSession(once, id)
        IN  /\ SelectById(once, id) = ResetRow(store[i])
            /\ SelectById(twice, id) = ResetRow(store[i])
            /\ RowIds(once) = RowIds(store)
            /\ RowIds(twice) = RowIds(store)

\* C11 witness: a handler is about to run resetSession on a stored session
\* that is in an enquiry state with collected data.
C11_Witness ==
    \E h \in Slots : \E i \in 1..Len(store) :
        /\ handlers[h].pc = "resetCmd"
        /\ handlers[h].session.id = store[i].id
        /\ store[i].currentState \in EnquiryStates
        /\ Has(store[i].sessionData, "meterNumber")
        /\ Has(store[i].sessionData, "asyncRequestId")

\* C12: a message that is MENU or RESET after trim and upper-casing goes to
\* no state handler: it leads to resetSession, which leaves the session the
\* handler loaded in MENU with empty data as the phone number's active
\* session, leaves every other row alone, and the reply is the menu.
C12_MenuFromAnyState ==
    [][\A h \in Slots :
          /\ ( /\ handlers[h].pc \in {"gocSelect", "gocInsert"}
               /\ Normalize(handlers[h].message) \in resetKeywords
               /\ handlers'[h].pc \notin {"gocSelect", "gocInsert"} )
                 => /\ handlers'[h].pc = "resetCmd"
                    /\ \A id \in RowIds(store) : SelectById(store', id) = SelectById(store, id)
                    /\ \A id \in RowIds(store') \ RowIds(store) :
                          SelectById(store', id).sessionData = EmptyData
          /\ ( /\ handlers[h].pc = "resetCmd"
               /\ handlers'[h].pc # "resetCmd"
               /\ handlers[h].session.id \in RowIds(store) )
                 => /\ handlers'[h].reply = [kind |-> "menu", arg |-> handlers[h].session.id]
                    /\ SelectLatest(store', handlers[h].phoneNumber)
                          = ResetRow(SelectById(store, handlers[h].session.id))
                    /\ \A id \in RowIds(store) \ {handlers[h].session.id} :
                          SelectById(store', id) = SelectById(store, id)]_vars

\* C12 witness: the menu was returned for a session whose pipeline had
\* delivered the enquiry result, and the session is in MENU with no data.
C12_Witness ==
    \E h \in Slots : \E p \in PipeIds :
        /\ handlers[h].pc = "done"
        /\ handlers[h].reply.kind = "menu"
        /\ pipes[p].sessionId = handlers[h].reply.arg
        /\ \E i \in 1..Len(pipes[p].notes) : pipes[p].notes[i] = "result"
        /\ SelectById(store, pipes[p].sessionId).currentState = "MENU"
        /\ SelectById(store, pipes[p].sessionId).sessionData = EmptyData

\* C13: MENU / RESET on a session that exists answers with that session's
\* identifier and leaves it the active one; a cancel keyword answers with an
\* identifier other than the loaded session's, and the active session of the
\* phone number has that other identifier.
C13_ResetKeepsIdCancelReplaces ==
    [][\A h \in Slots :
          /\ ( /\ handlers[h].pc = "resetCmd"
               /\ handlers'[h].pc # "resetCmd"
               /\ handlers[h].session.id \in RowIds(store) )
                 => /\ handlers'[h].reply.arg = handlers[h].session.id
                    /\ SelectLatest(store', handlers[h].phoneNumber).id = handlers[h].session.id
          /\ ( /\ handlers[h].pc \in {"cancelSelect", "cancelInsert"}
               /\ handlers'[h].pc = "done" )
                 => /\ handlers'[h].reply.kind = "cancelMenu"
                    /\ handlers'[h].reply.arg # handlers[h].session.id
                    /\ SelectLatest(store', handlers[h].phoneNumber).id = handlers'[h].reply.arg
                    /\ handlers[h].session.id \notin RowIds(store')]_vars

\* C13 witness: one session was loaded by a MENU and by a cancel; the MENU
\* was answered with its identifier, the cancel with another one.
C13_Witness ==
    \E h, g \in Slots :
        /\ handlers[h].pc = "done" /\ handlers[h].reply.kind = "menu"
        /\ handlers[g].pc = "done" /\ handlers[g].reply.kind = "cancelMenu"
        /\ handlers[h].reply.arg \in cancelDone
        /\ handlers[g].reply.arg # handlers[h].reply.arg
        /\ SelectLatest(store, "p1").id = handlers[g].reply.arg

\* The handler pcs a burst of MaxBurst messages can reach.
BurstPcs ==
    {"idle", "gocSelect", "gocInsert", "menuUpdate", "fieldUpdate", "cancelDelete",
     "cancelSelect", "cancelInsert", "resetCmd", "resetSelect", "resetInsert", "done"}

BurstClosed == \A h \in Slots : handlers[h].pc \in BurstPcs

\* C14: the session a cancel keyword is answered with is brand-new: it is
\* not a row older than the session the cancel deleted (identifiers are
\* handed out in increasing order here), and it is in MENU with empty data
\* unless a later message has already moved it on.
C14_CancelGivesBrandNewSession ==
    [][\A h \in Slots :
          ( /\ handlers[h].pc \in {"cancelSelect", "cancelInsert"}
            /\ handlers'[h].pc = "done" )
              => handlers'[h].reply.arg > handlers[h].session.id]_vars

\* C15: a MENU / RESET whose session was deleted under it is answered with
\* the menu, and the phone number then has an active session in MENU.
C15_ResetRaceEndsInMenu ==
    [][\A h \in Slots :
          ( /\ handlers[h].pc \in {"resetSelect", "resetInsert"}
            /\ handlers'[h].pc = "done" )
              => LET s == SelectLatest(store', handlers[h].phoneNumber)
                 IN  /\ handlers'[h].reply = [kind |-> "menu", arg |-> s.id]
                     /\ s.currentState = "MENU"]_vars

\* C16: in CONFIRM_CHARGE a message that is no command is answered by its
\* upper-cased trimmed text: YES, Y or CONFIRM reset the session to MENU
\* with empty data and reply success, NO or N reset it and reply cancelled,
\* anything else re-prompts and writes nothing.
C16_ChargeConfirmation ==
    [][\A h \in Slots :
          LET hr == handlers[h]
              up == ToUpperCase(Trim(hr.message))
              s  == SelectLatest(store, hr.phoneNumber)
          IN  /\ ( /\ hr.pc = "gocSelect"
                   /\ handlers'[h] # hr
                   /\ s.currentState = "CONFIRM_CHARGE"
                   /\ up \notin cancelKeywords \cup resetKeywords )
                     => /\ store' = store
                        /\ IF up \in { <<"Y","E","S">>, <<"Y">>, <<"C","O","N","F","I","R","M">> }
                           THEN handlers'[h].pc = "confirmReset" /\ handlers'[h].toState = "success"
                           ELSE IF up \in { <<"N","O">>, <<"N">> }
                           THEN handlers'[h].pc = "confirmReset" /\ handlers'[h].toState = "cancelled"
                           ELSE handlers'[h].pc = "done" /\ handlers'[h].reply.kind = "confirmPrompt"
              /\ ( hr.pc = "confirmReset" /\ handlers'[h] # hr )
                     => /\ handlers'[h].pc = "done"
                        /\ handlers'[h].reply.kind = hr.toState
                        /\ hr.session.id \in RowIds(store)
                              => SelectById(store', hr.session.id)
                                    = ResetRow(SelectById(store, hr.session.id))
                        /\ \A id \in RowIds(store) \ {hr.session.id} :
                              SelectById(store', id) = SelectById(store, id)]_vars

\* C16 witness: a confirmation was answered with success for a
\* session whose pipeline had delivered the result; the session is in MENU
\* with empty data.
C16_Witness ==
    \E h \in Slots : \E p \in PipeIds :
        /\ handlers[h].pc = "done"
        /\ handlers[h].reply.kind = "success"
        /\ \E i \in 1..Len(pipes[p].notes) : pipes[p].notes[i] = "result"
        /\ SelectById(store, pipes[p].sessionId).currentState = "MENU"
        /\ SelectById(store, pipes[p].sessionId).sessionData = EmptyData

\* C19: the promise of processEnquiryAsync never rejects.
C19_PipelineNeverRejects ==
    \A p \in PipeIds : ~pipes[p].rejected

\* processEnquiryAsync returns in this step, and its session is still stored
\* (identifiers are never reused, so no cancel deleted it during the run).
ReturnsUncancelled(p) ==
    /\ Live(pipes[p])
    /\ pipes'[p].pc = "done"
    /\ ~pipes'[p].rejected
    /\ pipes[p].sessionId \in RowIds(store')

\* C17 as stated: a run not interrupted by a cancel has sent the two
\* progress notices and then exactly one result or error notice.
C17_TwoProgressThenTerminal ==
    [][\A p \in PipeIds :
          ReturnsUncancelled(p) =>
              /\ Len(pipes'[p].notes) = 3
              /\ pipes'[p].notes[1] = "retrieving"
              /\ pipes'[p].notes[2] = "processingEnquiry"
              /\ pipes'[p].notes[3] \in {"result", "errTimeout", "errConnection",
                                         "errMeterInfo", "errEnquiry", "errGeneric"}]_vars

\* The notification sequences of a run that returns with its session stored.
MeterInfoFailureNotes ==
    { << "retrieving", e >> : e \in {"errTimeout", "errConnection", "errMeterInfo"} }

EnquiryOutcomeNotes ==
    { << "retrieving", "processingEnquiry", t >> :
          t \in {"result", "errTimeout", "errConnection", "errEnquiry"} }

StoreFailureNotes ==
    { << "errGeneric" >>, << "retrieving", "errGeneric" >>,
      << "retrieving", "processingEnquiry", "errGeneric" >> }

\* C17 amended: a run that returns without a cancel has sent 'retrieving'
\* and then either one meter-info error notice, or 'processing enquiry' and
\* then exactly one of the result and an enquiry error notice; when a store
\* call threw, the generic error notice ends the sequence where it stood.
C17_ProgressThenTerminal ==
    [][\A p \in PipeIds :
          ReturnsUncancelled(p) =>
              pipes'[p].notes \in MeterInfoFailureNotes \cup EnquiryOutcomeNotes
                                     \cup StoreFailureNotes]_vars

\* C17 witness: a run whose meter-info call timed out has returned after
\* one progress notice and the timeout notice, its session still stored.
C17_Witness ==
    \E p \in PipeIds :
        /\ pipes[p].pc = "done"
        /\ ~pipes[p].rejected
        /\ pipes[p].notes = << "retrieving", "errTimeout" >>
        /\ pipes[p].sessionId \in RowIds(store)
        /\ pipes[p].sessionId \notin cancelDone

\* The error notices of the failure paths.
ErrorNotes == {"errTimeout", "errConnection", "errMeterInfo", "errEnquiry", "errGeneric"}

InMenuEmpty(s) == s.currentState = "MENU" /\ s.sessionData = EmptyData

Quiescent ==
    /\ \A h \in Slots : ~Busy(handlers[h])
    /\ \A p \in PipeIds : ~Live(pipes[p])

\* C20, for finite runs: no session is in an *_ENQUIRY state once nothing is
\* in flight any more (from such a state it would stay there for ever
\* without further user input, under any fairness of the pipeline's steps).
C20_NoSessionLeftInEnquiry ==
    Quiescent => \A i \in 1..Len(store) : store[i].currentState \notin EnquiryStates

\* A session is left in an *_ENQUIRY state only by a pipeline that rejected.
OnlyRejectionLeavesEnquiry ==
    Quiescent =>
        \A i \in 1..Len(store) :
            store[i].currentState \in EnquiryStates
                => \E p \in PipeIds : pipes[p].rejected /\ pipes[p].sessionId = store[i].id

\* C21: a message that is no command, handled for a session loaded in an
\* *_ENQUIRY state, writes nothing to the session store; it is answered with
\* the stored enquiry result when the reloaded session is in CONFIRM_CHARGE
\* with an enquiryResponse, and with the 'still processing' notice otherwise.
C21_EnquiryHandlerReadOnly ==
    [][\A h \in Slots :
          LET hr  == handlers[h]
              up  == ToUpperCase(Trim(hr.message))
              s   == SelectLatest(store, hr.phoneNumber)
              cur == SelectById(store, hr.session.id)
          IN  /\ ( /\ hr.pc = "gocSelect"
                   /\ handlers'[h] # hr
                   /\ s.currentState \in EnquiryStates
                   /\ up \notin cancelKeywords \cup resetKeywords )
                     => /\ handlers'[h].pc = "enqGet"
                        /\ handlers'[h].session = s
                        /\ store' = store
              /\ ( hr.pc = "enqGet" /\ handlers'[h] # hr )
                     => /\ store' = store
                        /\ handlers'[h].pc = "done"
                        /\ handlers'[h].reply.kind =
                              IF /\ hr.session.id \in RowIds(store)
                                 /\ cur.currentState = "CONFIRM_CHARGE"
                                 /\ cur.sessionData["enquiryResponse"] # <<>>
                              THEN "enquiryResult" ELSE "stillProcessing"]_vars

\* C21 witness: a message loaded the session in an enquiry state and was
\* answered with the enquiry result the pipeline had stored meanwhile.
C21_Witness ==
    \E h \in Slots : \E i \in 1..Len(store) :
        /\ handlers[h].pc = "done"
        /\ handlers[h].reply.kind = "enquiryResult"
        /\ store[i].currentState = "CONFIRM_CHARGE"

\* C22: the step that returns the 'processing' acknowledgment has persisted
\* the session in the matching *_ENQUIRY state and started the pipeline for
\* that session; when the acknowledgment is produced the pipeline has sent
\* no notice and issued no backend call, so none of its calls has returned.
C22_AckBeforeBackend ==
    [][\A h \in Slots :
          LET hr == handlers[h]
          IN  ( /\ hr.pc = "completeUpdate"
                /\ handlers'[h].pc = "done"
                /\ handlers'[h].reply.kind = "processing" )
                 => /\ hr.toState \in EnquiryStates
                    /\ hr.session.id \in RowIds(store')
                    /\ SelectById(store', hr.session.id).currentState = hr.toState
                    /\ \E p \in PipeIds :
                          /\ pipes[p].pc = "idle"
                          /\ pipes'[p].pc = "load"
                          /\ pipes'[p].sessionId = hr.session.id
                          /\ pipes'[p].type = (IF hr.toState = "PREPAID_ENQUIRY"
                                               THEN "PREPAID" ELSE "POSTPAID")
                          /\ pipes'[p].reqs = <<>>
                          /\ pipes'[p].notes = <<>>]_vars

\* C22 witness: the acknowledgment has been returned while the pipeline it
\* started is still waiting for its first store read.
C22_Witness ==
    \E h \in Slots : \E p \in PipeIds :
        /\ handlers[h].pc = "done"
        /\ handlers[h].reply.kind = "processing"
        /\ pipes[p].pc = "load"
        /\ pipes[p].reqs = <<>>
        /\ SelectById(store, pipes[p].sessionId).currentState \in EnquiryStates

\* C23: within one pipeline run at most one backend call is outstanding; the
\* enquiry endpoint is called only as the second call, after the meter-info
\* call of that run returned a body with payLoad; after a failed or malformed
\* meter-info result the run never calls the enquiry endpoint.
C23_EnquiryOnlyAfterMeterInfo ==
    \A p \in PipeIds :
        LET pr == pipes[p]
        IN  /\ Len(pr.got) <= Len(pr.reqs)
            /\ Len(pr.reqs) <= Len(pr.got) + 1
            /\ \A i \in 1..Len(pr.reqs) :
                  pr.reqs[i].endpoint = "OnlineEnquiry"
                     => /\ i = 2
                        /\ pr.reqs[1].endpoint = "OnlineInfo"
                        /\ pr.got[1] = "ok"
            /\ (Len(pr.got) >= 1 /\ pr.got[1] = "failed") => Len(pr.reqs) = 1

\* C23 witness: one run has called the enquiry endpoint after its meter-info
\* lookup succeeded, another has returned after a failed lookup.
C23_Witness ==
    \E p, q \in PipeIds :
        /\ Len(pipes[p].reqs) = 2
        /\ pipes[p].reqs[2].endpoint = "OnlineEnquiry"
        /\ pipes[q].pc = "done"
        /\ pipes[q].got = << "failed" >>

\* The pipeline run behind a write: the run that is at its CONFIRM_CHARGE
\* update for session id.
Confirming(p, id) == pipes[p].pc = "confirmUpdate" /\ pipes[p].sessionId = id

\* C24: a session is written into CONFIRM_CHARGE only by a pipeline run
\* whose enquiry returned at least one record, together with the enquiry
\* response; the result is pushed only in the step in which that write
\* succeeded; a run whose enquiry returned no record or failed is on the
\* failure path and never pushes a result.
C24_ConfirmOnlyOnRecords ==
    [][/\ \A i \in 1..Len(store') :
             LET r == store'[i]
             IN  (r.currentState = "CONFIRM_CHARGE" /\ r # SelectById(store, r.id))
                    => \E p \in PipeIds :
                          /\ Confirming(p, r.id)
                          /\ pipes[p].got = << "ok", "ok" >>
                          /\ Has(r.sessionData, "enquiryResponse")
                          /\ pipes'[p].pc = "resultSend"
       /\ \A p \in PipeIds :
             /\ (Len(pipes'[p].notes) > Len(pipes[p].notes)
                    /\ pipes'[p].notes[Len(pipes'[p].notes)] = "result")
                   => /\ Confirming(p, pipes[p].sessionId)
                      /\ pipes[p].sessionId \in RowIds(store)
                      /\ SelectById(store', pipes[p].sessionId).currentState = "CONFIRM_CHARGE"
                      /\ Has(SelectById(store', pipes[p].sessionId).sessionData, "enquiryResponse")
             /\ (Len(pipes'[p].got) = 2 /\ pipes'[p].got[2] = "failed")
                   => /\ pipes'[p].pc \in {"failGet", "failReset", "errSend", "catchGet",
                                            "catchReset", "catchSend", "done"}
                      /\ \A k \in 1..Len(pipes'[p].notes) : pipes'[p].notes[k] # "result"]_vars

\* C24 witness: one run has pushed the result for a session it moved to
\* CONFIRM_CHARGE, and one run whose enquiry gave no usable result has
\* returned on the failure path.
C24_Witness ==
    \E p, q \in PipeIds :
        /\ pipes[p].notes = << "retrieving", "processingEnquiry", "result" >>
        /\ pipes[q].pc = "done"
        /\ pipes[q].got = << "ok", "failed" >>

\* C25: a login (from _ensureAuth or after a 401) either caches a fresh
\* token, or leaves the token cache empty and raises an error of type auth.
C25_LoginFailureTaggedAuth ==
    [][\A c \in CallIds :
          (calls[c].pc \in {"login", "relogin"} /\ calls'[c] # calls[c])
             => \/ /\ authToken' = nextTok
                   /\ authToken' # 0
                   /\ calls'[c].loginThrew = "none"
                \/ /\ authToken' = 0
                   /\ calls'[c].loginThrew = "auth"]_vars

\* C26: a call that ended with a failure of its request carries the type
\* the table gives for that failure: timeout for a transport timeout,
\* connection for a refused connection or any other failure without a
\* response, api for an HTTP error status and for a success status with an
\* empty body.
C26_ClassificationTable ==
    \A c \in CallIds :
        LET cr == calls[c]
            o  == cr.resps[Len(cr.resps)]
        IN  (cr.pc = "done" /\ cr.resps # <<>> /\ cr.loginThrew = "none" /\ o # "ok")
               => cr.result = CASE o = "timeout" -> "timeout"
                                [] o \in {"refused", "network"} -> "connection"
                                [] o \in {"401", "500", "emptyBody"} -> "api"

\* The paths on which getMachineSignature rejects.
SignatureFailures == {"noValue", "badFormat", "unparsable", "error", "timeout", "initFail"}

\* C27: once the signature acquisition of an enquiry call has failed, the
\* call goes on with an empty machineSignature: it is never over without
\* a login or a request having been answered, and a request answered with a
\* usable body makes the call succeed.
C27_SignatureFailureSwallowed ==
    \A c \in CallIds :
        LET cr == calls[c]
        IN  (cr.op = "enquiry" /\ cr.ws.exit \in SignatureFailures)
               => /\ cr.machineSignature = ""
                  /\ cr.pc \in {"login", "request", "relogin", "done"}
                  /\ cr.pc = "done" => (cr.resps # <<>> \/ cr.loginThrew # "none")
                  /\ (cr.pc = "done" /\ cr.loginThrew = "none")
                        => (cr.result = "ok" <=> cr.resps[Len(cr.resps)] = "ok")

\* C27 witness: the signature socket timed out, the request went out with an
\* empty signature and the backend answered it.
C27_Witness ==
    \E c \in CallIds :
        /\ calls[c].op = "enquiry"
        /\ calls[c].ws.exit = "timeout"
        /\ calls[c].machineSignature = ""
        /\ calls[c].pc = "done"
        /\ calls[c].result = "ok"

\* C28: whenever the promise of getMachineSignature has settled, close() or
\* terminate() has been called on the socket it opened.
C28_SocketTornDown ==
    \A c \in CallIds :
        (calls[c].ws.opened /\ calls[c].ws.exit # "") => calls[c].ws.torndown

\* C30: the phoneNumber getMeterInfo sends holds only digits, but for a '+'
\* that may stand in the first place.
C30_PhoneNormalized ==
    \A c \in CallIds :
        LET v == calls[c].phone
        IN  calls[c].op = "getMeterInfo"
               => \A i \in 1..Len(v) : v[i] \in Digits \/ (v[i] = "+" /\ i = 1)

\* C29: an updateSession(id, state, patch) that a handler awaits leaves, for
\* an existing id, that row with the given state, with the patch's value
\* under every key of the patch and its previous value under every other
\* key, and leaves every other row as it was; for an id that is gone it
\* fails (the handler answers with the error reply) and the store is
\* unchanged. An update whose patch has no key leaves the data of any row
\* unchanged.
C29_UpdateMerges ==
    [][/\ \A h \in Slots :
             LET hr  == handlers[h]
                 id  == hr.session.id
                 old == SelectById(store, id)
                 new == SelectById(store', id)
             IN  (hr.pc \in {"menuUpdate", "fieldUpdate", "completeUpdate"} /\ handlers'[h] # hr)
                    => IF id \in RowIds(store)
                       THEN /\ new.currentState = hr.toState
                            /\ \A k \in Keys :
                                  new.sessionData[k] =
                                     IF Has(hr.patch, k) THEN hr.patch[k] ELSE old.sessionData[k]
                            /\ RowIds(store') = RowIds(store)
                            /\ \A j \in RowIds(store) \ {id} :
                                  SelectById(store', j) = SelectById(store, j)
                       ELSE /\ store' = store
                            /\ handlers'[h].reply.kind = "error"
       /\ \A i \in 1..Len(store) :
             SelectById(UpdateSession(store, store[i].id, "MENU", EmptyData),
                        store[i].id).sessionData = store[i].sessionData]_vars

\* C29 witness: a menu choice that had loaded the session before a field was
\* stored has been written after it: the cursor is back at the first field
\* and the field stored meanwhile is still there.
C29_Witness ==
    \E i \in 1..Len(store) :
        /\ Has(store[i].sessionData, "phoneNumber")
        /\ store[i].sessionData["currentFieldIndex"] = Some(0)
        /\ \A h \in Slots : ~Busy(handlers[h])

\* C31: every processMessage invocation that is over has produced a reply;
\* without DATABASE_URL that reply is the 'temporarily unavailable' one; and
\* once a missing BACKEND_BASE_URL has made a backend call throw and the
\* run that made the call has sent its last notice and is over, the user
\* has been told 'temporarily unavailable', by a reply or by a notice.
C31_ConfigurationErrorsUnavailable ==
    /\ \A h \in Slots :
          handlers[h].pc = "done"
             => /\ handlers[h].reply # NoReply
                /\ ~env.DATABASE_URL => handlers[h].reply.kind = "unavailable"
    /\ \A p \in PipeIds :
          (~env.BACKEND_BASE_URL /\ pipes[p].pc = "done" /\ pipes[p].got # <<>>
                                 /\ Len(pipes[p].notes) >= 2)
             => \/ \E h \in Slots : handlers[h].reply.kind = "unavailable"
                \/ \E k \in 1..Len(pipes[p].notes) : pipes[p].notes[k] = "unavailable"

\* C32: a call starts a login only at a moment when no token is cached, and
\* a re-login only on the 401 answer to its first attempt; a request built
\* while a token is cached carries that token; a call that found a token
\* cached and whose request the backend accepted has logged in zero times.
C32_LoginOnlyWithoutToken ==
    [][\A c \in CallIds :
          LET cr == calls[c]
              nx == calls'[c]
          IN  /\ nx.logins > cr.logins => (authToken = 0 /\ nx.logins = cr.logins + 1)
              /\ nx.relogins > cr.relogins
                    => /\ cr.pc = "request"
                       /\ ~cr.isRetry
                       /\ nx.resps = Append(cr.resps, "401")
              /\ (Len(nx.sent) > Len(cr.sent) /\ authToken # 0 /\ authToken' = authToken)
                    => nx.sent = Append(cr.sent, authToken)
              /\ (nx.pc = "done" /\ nx.hadToken /\ nx.resps = << "ok" >>)
                    => /\ nx.logins = 0
                       /\ nx.relogins = 0
                       /\ Len(nx.sent) = 1]_vars

\* C32 witness: after one call has logged in, a later call has used the
\* cached token, has been accepted, and has not logged in.
C32_Witness ==
    \E c \in CallIds :
        /\ calls[c].pc = "done"
        /\ calls[c].hadToken
        /\ calls[c].resps = << "ok" >>
        /\ calls[c].logins = 0
        /\ calls[c].sent = << authToken >>
        /\ authToken # 0

\* C40: every request sent to the backend carries a token that is not empty
\* and that a successful login has returned.
C40_RequestsCarryIssuedToken ==
    \A c \in CallIds :
        \A i \in 1..Len(calls[c].sent) :
            /\ calls[c].sent[i] # 0
            /\ calls[c].sent[i] \in 1..(nextTok - 1)

\* C40 witness: one call's 401 has emptied the cache while another call was
\* logging in, and that call's request has gone out with the token its own
\* login returned.
C40_Witness ==
    \E c, d \in CallIds :
        /\ c # d
        /\ calls[d].relogins = 1
        /\ calls[d].pc = "relogin"
        /\ calls[c].logins = 1
        /\ calls[c].pc = "request"
        /\ calls[c].sent = << authToken >>
        /\ authToken > calls[d].sent[1]

\* The rows of one phone number.
RowsOf(st, phone) == { i \in 1..Len(st) : st[i].phoneNumber = phone }

\* C33: whatever the overlap of the messages of a phone number that had no
\* session, there is never more than one session row for that number.
C33_OneSessionPerPhone ==
    \A phone \in Phones : Cardinality(RowsOf(store, phone)) <= 1

\* C34: a getMeterInfo / enquiry call that ended with an error ended with
\* one of type timeout, connection or api.
C34_EveryErrorTyped ==
    \A c \in CallIds :
        (calls[c].pc = "done" /\ calls[c].result # "ok")
           => calls[c].result \in {"timeout", "connection", "api"}

\* C35: an error that carries a type before it reaches _handleError leaves
\* the call with that type: auth after a failed login or re-login that
\* tagged its error, api after a success status without data.
C35_TypedErrorPreserved ==
    \A c \in CallIds :
        LET cr == calls[c]
        IN  cr.pc = "done"
               => /\ cr.loginThrew = "auth" => cr.result = "auth"
                  /\ (cr.loginThrew = "none" /\ cr.resps # <<>>
                        /\ cr.resps[Len(cr.resps)] = "emptyBody") => cr.result = "api"

\* The session a pipeline run means to write is still the attempt that
\* launched it: the row is in the *_ENQUIRY state of the run's meter type
\* and, if the run has loaded the session, carries the asyncRequestId it
\* loaded.
SameAttempt(pr) ==
    LET r == SelectById(store, pr.sessionId)
    IN  /\ r.id # 0
        /\ r.currentState = (IF pr.type = "PREPAID" THEN "PREPAID_ENQUIRY" ELSE "POSTPAID_ENQUIRY")
        /\ Has(pr.sessionData, "asyncRequestId")
              => r.sessionData["asyncRequestId"] = pr.sessionData["asyncRequestId"]

\* C36: a write of a pipeline run (the CONFIRM_CHARGE update, the reset of
\* a failure path) changes the store only if the session is still the
\* attempt that launched the run.
C36_PipelineWritesOwnAttemptOnly ==
    [][\A p \in PipeIds :
          ( /\ pipes[p].pc \in {"confirmUpdate", "failReset", "catchReset"}
            /\ pipes'[p] # pipes[p]
            /\ SelectById(store', pipes[p].sessionId) # SelectById(store, pipes[p].sessionId) )
              => SameAttempt(pipes[p])]_vars

\* C37: no two pipeline runs are in flight for the same session.
C37_OnePipelinePerSession ==
    \A p, q \in PipeIds :
        (p # q /\ Live(pipes[p]) /\ Live(pipes[q]))
           => pipes[p].sessionId # pipes[q].sessionId

\* C38: a session row in state MENU has empty session data.
C38_MenuHasNoData ==
    \A i \in 1..Len(store) :
        store[i].currentState = "MENU" => store[i].sessionData = EmptyData

\* C38 witness: a session that held collected fields has been reset or
\* replaced and is in MENU again, with nothing left of them, while the
\* pipeline of the old attempt has run to its end.
C38_Witness ==
    /\ \E i \in 1..Len(store) :
          store[i].currentState = "MENU" /\ store[i].sessionData = EmptyData
    /\ \E p \in PipeIds : pipes[p].pc = "done" /\ pipes[p].notes # <<>>
    /\ \E h \in Slots : handlers[h].reply.kind = "menu"

\* C39: a session row in a *_METER_INFO state has a cursor of 0, 1 or 2, a
\* row in an *_ENQUIRY state a cursor of 3, and no message is dispatched
\* to the field handler with a cursor beyond the field list.
C39_CursorInRange ==
    [][/\ \A i \in 1..Len(store') :
             LET r == store'[i]
             IN  /\ r.currentState \in {"PREPAID_METER_INFO", "POSTPAID_METER_INFO"}
                    => r.sessionData["currentFieldIndex"] \in {Some(0), Some(1), Some(2)}
                 /\ r.currentState \in EnquiryStates
                    => r.sessionData["currentFieldIndex"] = Some(3)
       /\ \A h \in Slots :
             LET s == handlers'[h].session
             IN  handlers'[h].pc \in {"fieldUpdate", "completeUpdate"}
                    => CursorOf(s.sessionData) \in 1..Len(METER_INFO_FIELDS)]_vars

\* C39 witness: the last field of a session has been stored, the row is in
\* an *_ENQUIRY state with cursor 3 and its pipeline is running, while
\* another message of the same user is being handled.
C39_Witness ==
    \E i \in 1..Len(store) : \E p \in PipeIds : \E h \in Slots :
        /\ store[i].currentState \in EnquiryStates
        /\ store[i].sessionData["currentFieldIndex"] = Some(3)
        /\ pipes[p].sessionId = store[i].id
        /\ Live(pipes[p])
        /\ Busy(handlers[h])

====
